---- MODULE Spec2Model ----
(***************************************************************************)
(* State-machine model of DeckOfCardsApp (src/src/deck_of_cards/app.py):   *)
(* the per-card Draggable handlers, Card.on_click, the grab notification   *)
(* handled by the app, and the shuffle coroutine with its animation wait.  *)
(*                                                                         *)
(* Cards are numbered 1..NumCards in deck order.  A layer "z-index-i" is   *)
(* the integer i, the screen's layer tuple is a sequence of such integers. *)
(* An Offset is a pair <<x, y>>; None is the empty tuple <<>>.             *)
(***************************************************************************)
EXTENDS Integers, Sequences, FiniteSets, TLC

\* Number of cards the handlers are followed on: the first NumCards cards of
\* the deck list (all 52 of them in the program).
NumCards == 2
\* The pointer is followed along the line x + y = MaxCoord, 0 <= x <= MaxCoord,
\* so that both coordinates of a position vary, and in opposite directions.
MaxCoord == 1
\* Grab notifications posted between two shuffles are capped: MaxGrabs of
\* them, MaxGrabsDrag in the specification of the drag (SpecDrag).
MaxGrabs == 2
MaxGrabsDrag == 2

\* Members of CardSuit (DIAMONDS = 1 .. SPADES = 4) and of CardRank (ACE = 1 ..
\* KING = 13): a member is its value.
NumSuits == 4
NumRanks == 13

Cards == 1..NumCards
Coords == 0..MaxCoord
Positions == {<<x, MaxCoord - x>> : x \in Coords}
None == <<>>
Origin == <<0, 0>>

VARIABLES
    cards,                  \* DeckOfCardsApp.cards: the <<suit, rank>> of every
                            \*   Card of the deck list, in the list's order
    appState,               \* "constructed" -> "composed" -> "mounted"
    face_up,                \* Card.face_up, per card
    offset,                 \* card.styles.offset, per card
    layer,                  \* card.styles.layer, per card (0: not yet set)
    dragged,                \* Draggable.dragged, per card
    mouse_at_drag_start,    \* Draggable.mouse_at_drag_start, per card
    offset_at_drag_start,   \* Draggable.offset_at_drag_start, per card
    layers,                 \* screen.styles.layers
    fresh_deck,             \* DeckOfCardsApp.fresh_deck
    mouse_captured,         \* the widget holding the mouse capture (0: none)
    grabbedQueue,           \* Draggable.Grabbed messages posted, not yet handled
    clickPending,           \* card owed the Click of its MouseUp (0: none)
    shufflePc,              \* action_shuffle: "idle" or "waiting" (at the await)
    animating,              \* cards with a running offset animation
    gesture,                \* history: the pointer gesture in progress
    assigned,               \* history: layers given to cards since the last
                            \*   completed shuffle (or since startup)
    untouched,              \* history: no grab handled, no shuffle run yet
    cardDeck,               \* CardDeckApp (src/card_deck.py): its one Card
    cardDeckGesture         \* history: the pointer gesture on that Card

vars == <<cards, appState, face_up, offset, layer, dragged,
          mouse_at_drag_start, offset_at_drag_start, layers, fresh_deck,
          mouse_captured, grabbedQueue, clickPending, shufflePc, animating,
          gesture, assigned, untouched, cardDeck, cardDeckGesture>>

\* DeckOfCardsApp and the history kept of it.
deckOfCardsVars ==
    <<cards, appState, face_up, offset, layer, dragged, mouse_at_drag_start,
      offset_at_drag_start, layers, fresh_deck, mouse_captured, grabbedQueue,
      clickPending, shufflePc, animating, gesture, assigned, untouched>>

\* CardDeckApp and the history kept of it.
cardDeckVars == <<cardDeck, cardDeckGesture>>

cardVars == <<face_up, offset, layer, dragged, mouse_at_drag_start,
              offset_at_drag_start>>

----------------------------------------------------------------------------
\* Offset arithmetic (textual.geometry.Offset is added and subtracted
\* componentwise).
OffsetAdd(a, b) == <<a[1] + b[1], a[2] + b[2]>>
OffsetSub(a, b) == <<a[1] - b[1], a[2] - b[2]>>

\* range(a, b) of Python as a sequence: a, a+1, ..., b-1.
Range(a, b) == [i \in 1..(b - a) |-> a + i - 1]

\* All orders random.shuffle can leave a list of 1..n in.
Shuffles(n) ==
    {s \in [1..n -> 1..n] : \A i, j \in 1..n : i # j => s[i] # s[j]}

\* History of the pointer gesture in progress: the card it is on, how far it
\* got ("down", "up", "clicked"; "stray" for a MouseUp no MouseDown opened),
\* whether a MouseMove came between its MouseDown and its MouseUp, the card's
\* face and the handler's inputs at the MouseDown, the toggles its Click made,
\* and whether no shuffle has reset the faces since the MouseDown.
NoGesture ==
    [card |-> 0, phase |-> "none", moved |-> FALSE, faceAtDown |-> FALSE,
     flips |-> 0, intact |-> TRUE, downMouse |-> None, downOffset |-> None]

\* History of the pointer gesture on CardDeckApp's card: how far it got, whether
\* a MouseMove came between its MouseDown and its MouseUp, the card's face at
\* the MouseDown and the toggles its Click made.
CardDeckNoGesture ==
    [phase |-> "none", moved |-> FALSE, faceAtDown |-> FALSE, flips |-> 0]

\* CardDeckApp constructed: compose has not run, and the Card it will yield has
\* the reactive defaults of Draggable and Card.
CardDeckInit ==
    [composed |-> FALSE, face_up |-> FALSE, offset |-> Origin,
     mouse_at_drag_start |-> None, offset_at_drag_start |-> None,
     mouse_captured |-> FALSE, clickPending |-> FALSE]

----------------------------------------------------------------------------
\* Iterating an Enum yields its members in definition order.
CardSuit == Range(1, NumSuits + 1)
CardRank == Range(1, NumRanks + 1)

\* reversed(s) of Python.
Reversed(s) == [i \in 1..Len(s) |-> s[Len(s) + 1 - i]]

\* The inner loop of init_deck from the j-th rank of ranks on: one
\* Card(suit, rank) is appended for every rank.
RECURSIVE AppendRanks(_, _, _)
AppendRanks(suit, ranks, j) ==
    IF j > Len(ranks) THEN <<>>
    ELSE << <<suit, ranks[j]>> >> \o AppendRanks(suit, ranks, j + 1)

\* The outer loop of init_deck from the i-th suit on, the inner loop going
\* through ranks.
RECURSIVE AppendSuits(_, _)
AppendSuits(i, ranks) ==
    IF i > Len(CardSuit) THEN <<>>
    ELSE AppendRanks(CardSuit[i], ranks, 1) \o AppendSuits(i + 1, ranks)

\* init_deck without reversed(): the ranks of a suit run from ACE to KING.
init_deck_ascending == AppendSuits(1, CardRank)

\* DeckOfCardsApp.init_deck().
init_deck == AppendSuits(1, Reversed(CardRank))

----------------------------------------------------------------------------
\* DeckOfCardsApp.__init__ and the reactive defaults of every widget; beside
\* it CardDeckApp as constructed.  A specification runs one of the two programs
\* and leaves the other as constructed.
Init ==
    /\ cards = init_deck
    /\ appState = "constructed"
    /\ face_up = [c \in Cards |-> FALSE]
    /\ offset = [c \in Cards |-> Origin]
    /\ layer = [c \in Cards |-> 0]
    /\ dragged = [c \in Cards |-> FALSE]
    /\ mouse_at_drag_start = [c \in Cards |-> None]
    /\ offset_at_drag_start = [c \in Cards |-> None]
    /\ layers = <<>>
    /\ fresh_deck = TRUE
    /\ mouse_captured = 0
    /\ grabbedQueue = <<>>
    /\ clickPending = 0
    /\ shufflePc = "idle"
    /\ animating = {}
    /\ gesture = NoGesture
    /\ assigned = {}
    /\ untouched = TRUE
    /\ cardDeck = CardDeckInit
    /\ cardDeckGesture = CardDeckNoGesture

\* The layer compose gives the i-th card of the deck: z_index starts at 1 and
\* is incremented after every card.
RECURSIVE ComposeLayers(_, _)
ComposeLayers(i, z_index) ==
    IF i > NumCards THEN <<>>
    ELSE <<z_index>> \o ComposeLayers(i + 1, z_index + 1)

\* compose counting the layers from 0.
compose_from_zero ==
    /\ appState = "constructed"
    /\ appState' = "composed"
    /\ layer' = [c \in Cards |-> ComposeLayers(1, 0)[c]]
    /\ assigned' = {ComposeLayers(1, 0)[c] : c \in Cards}
    /\ UNCHANGED <<cards, cardDeckVars,
                   face_up, offset, dragged, mouse_at_drag_start,
                   offset_at_drag_start, layers, fresh_deck, mouse_captured,
                   grabbedQueue, clickPending, shufflePc, animating, gesture,
                   untouched>>

\* DeckOfCardsApp.compose(): every card of the deck is given its layer.
compose ==
    /\ appState = "constructed"
    /\ appState' = "composed"
    /\ layer' = [c \in Cards |-> ComposeLayers(1, 1)[c]]
    /\ assigned' = {ComposeLayers(1, 1)[c] : c \in Cards}
    /\ UNCHANGED <<cards, cardDeckVars,
                   face_up, offset, dragged, mouse_at_drag_start,
                   offset_at_drag_start, layers, fresh_deck, mouse_captured,
                   grabbedQueue, clickPending, shufflePc, animating, gesture,
                   untouched>>

\* DeckOfCardsApp.on_mount(): the layers z-index-1 .. z-index-52 are published.
on_mount ==
    /\ appState = "composed"
    /\ appState' = "mounted"
    /\ layers' = Range(1, NumCards + 1)
    /\ UNCHANGED <<cards, cardDeckVars, cardVars, fresh_deck, mouse_captured,
                   grabbedQueue, clickPending, shufflePc, animating, gesture,
                   assigned, untouched>>

----------------------------------------------------------------------------
\* on_mouse_down without its first statement: dragged keeps the value the last
\* gesture left.
on_mouse_down_keeps_dragged(c, p) ==
    /\ grabbedQueue' = Append(grabbedQueue, c)
    /\ mouse_at_drag_start' = [mouse_at_drag_start EXCEPT ![c] = p]
    /\ offset_at_drag_start' = [offset_at_drag_start EXCEPT ![c] = offset[c]]
    /\ mouse_captured' = c
    /\ UNCHANGED <<cards, cardDeckVars,
                   appState, face_up, offset, layer, dragged, layers,
                   fresh_deck, shufflePc, animating>>

\* Draggable.on_mouse_down(event) of card c with event.screen_offset = p.
\* Offsets are whole cells here (an animation is followed to its end value
\* only), so round() leaves the two coordinates of styles.offset as they are.
on_mouse_down(c, p) ==
    /\ dragged' = [dragged EXCEPT ![c] = FALSE]
    /\ grabbedQueue' = Append(grabbedQueue, c)
    /\ mouse_at_drag_start' = [mouse_at_drag_start EXCEPT ![c] = p]
    /\ offset_at_drag_start' = [offset_at_drag_start EXCEPT ![c] = offset[c]]
    /\ mouse_captured' = c
    /\ UNCHANGED <<cards, cardDeckVars,
                   appState, face_up, offset, layer, layers, fresh_deck,
                   shufflePc, animating>>

\* on_mouse_move adding the pointer's travel to the card's current offset
\* instead of the offset at the start of the drag.
on_mouse_move_incremental(c, p) ==
    /\ IF mouse_at_drag_start[c] # None /\ offset_at_drag_start[c] # None
       THEN /\ dragged' = [dragged EXCEPT ![c] = TRUE]
            /\ offset' = [offset EXCEPT ![c] =
                   OffsetSub(OffsetAdd(offset[c], p), mouse_at_drag_start[c])]
       ELSE UNCHANGED <<dragged, offset>>
    /\ UNCHANGED <<cards, cardDeckVars,
                   appState, face_up, layer, mouse_at_drag_start,
                   offset_at_drag_start, layers, fresh_deck, mouse_captured,
                   grabbedQueue, shufflePc, animating>>

\* on_mouse_move setting dragged before its test of the drag session.
on_mouse_move_dragged_first(c, p) ==
    /\ dragged' = [dragged EXCEPT ![c] = TRUE]
    /\ IF mouse_at_drag_start[c] # None /\ offset_at_drag_start[c] # None
       THEN offset' = [offset EXCEPT ![c] =
                OffsetSub(OffsetAdd(offset_at_drag_start[c], p),
                          mouse_at_drag_start[c])]
       ELSE UNCHANGED offset
    /\ UNCHANGED <<cards, cardDeckVars,
                   appState, face_up, layer, mouse_at_drag_start,
                   offset_at_drag_start, layers, fresh_deck, mouse_captured,
                   grabbedQueue, shufflePc, animating>>

\* Draggable.on_mouse_move(event) of card c with event.screen_offset = p.
on_mouse_move(c, p) ==
    /\ IF mouse_at_drag_start[c] # None /\ offset_at_drag_start[c] # None
       THEN /\ dragged' = [dragged EXCEPT ![c] = TRUE]
            /\ offset' = [offset EXCEPT ![c] =
                   OffsetSub(OffsetAdd(offset_at_drag_start[c], p),
                             mouse_at_drag_start[c])]
       ELSE UNCHANGED <<dragged, offset>>
    /\ UNCHANGED <<cards, cardDeckVars,
                   appState, face_up, layer, mouse_at_drag_start,
                   offset_at_drag_start, layers, fresh_deck, mouse_captured,
                   grabbedQueue, shufflePc, animating>>

\* on_mouse_up clearing mouse_at_drag_start only.
on_mouse_up_keeps_offset(c) ==
    /\ mouse_at_drag_start' = [mouse_at_drag_start EXCEPT ![c] = None]
    /\ mouse_captured' = IF mouse_captured = c THEN 0 ELSE mouse_captured
    /\ UNCHANGED <<cards, cardDeckVars,
                   appState, face_up, offset, layer, dragged, layers,
                   fresh_deck, grabbedQueue, shufflePc, animating,
                   offset_at_drag_start>>

\* Draggable.on_mouse_up(event) of card c.
on_mouse_up(c) ==
    /\ mouse_at_drag_start' = [mouse_at_drag_start EXCEPT ![c] = None]
    /\ offset_at_drag_start' = [offset_at_drag_start EXCEPT ![c] = None]
    /\ mouse_captured' = IF mouse_captured = c THEN 0 ELSE mouse_captured
    /\ UNCHANGED <<cards, cardDeckVars,
                   appState, face_up, offset, layer, dragged, layers,
                   fresh_deck, grabbedQueue, shufflePc, animating>>

\* on_click without its test of dragged.
on_click_ignores_dragged(c) ==
    /\ face_up' = [face_up EXCEPT ![c] = ~face_up[c]]
    /\ UNCHANGED <<cards, cardDeckVars,
                   appState, offset, layer, dragged, mouse_at_drag_start,
                   offset_at_drag_start, layers, fresh_deck, mouse_captured,
                   grabbedQueue, shufflePc, animating>>

\* Card.on_click() of card c.
on_click(c) ==
    /\ IF ~dragged[c]
       THEN face_up' = [face_up EXCEPT ![c] = ~face_up[c]]
       ELSE UNCHANGED face_up
    /\ UNCHANGED <<cards, cardDeckVars,
                   appState, offset, layer, dragged, mouse_at_drag_start,
                   offset_at_drag_start, layers, fresh_deck, mouse_captured,
                   grabbedQueue, shufflePc, animating>>

\* on_card_grabbed naming the new layer after the number of layers there are,
\* not one more.
on_card_grabbed_reuses_top(c) ==
    LET current_layers == layers
        new_layer == Len(current_layers)
    IN  /\ fresh_deck' = FALSE
        /\ layers' = Append(current_layers, new_layer)
        /\ layer' = [layer EXCEPT ![c] = new_layer]
        /\ UNCHANGED <<cards, cardDeckVars, appState, face_up, offset, dragged,
                       mouse_at_drag_start, offset_at_drag_start,
                       mouse_captured, shufflePc, animating>>

\* on_card_grabbed naming the new layer one past the deck's size, whatever the
\* number of layers there are.
on_card_grabbed_fixed_top(c) ==
    LET current_layers == layers
        new_layer == NumCards + 1
    IN  /\ fresh_deck' = FALSE
        /\ layers' = Append(current_layers, new_layer)
        /\ layer' = [layer EXCEPT ![c] = new_layer]
        /\ UNCHANGED <<cards, cardDeckVars, appState, face_up, offset, dragged,
                       mouse_at_drag_start, offset_at_drag_start,
                       mouse_captured, shufflePc, animating>>

\* on_card_grabbed closing the gap the promoted card leaves: every card above
\* it moves one layer down.
on_card_grabbed_renumbers(c) ==
    LET current_layers == layers
        new_layer == Len(current_layers) + 1
    IN  /\ fresh_deck' = FALSE
        /\ layers' = Append(current_layers, new_layer)
        /\ layer' = [d \in Cards |->
                         IF d = c THEN new_layer
                         ELSE IF layer[d] > layer[c] THEN layer[d] - 1
                         ELSE layer[d]]
        /\ UNCHANGED <<cards, cardDeckVars, appState, face_up, offset, dragged,
                       mouse_at_drag_start, offset_at_drag_start,
                       mouse_captured, shufflePc, animating>>

\* on_card_grabbed putting the card on the new layer without publishing it.
on_card_grabbed_unpublished(c) ==
    LET current_layers == layers
        new_layer == Len(current_layers) + 1
    IN  /\ fresh_deck' = FALSE
        /\ layers' = current_layers
        /\ layer' = [layer EXCEPT ![c] = new_layer]
        /\ UNCHANGED <<cards, cardDeckVars, appState, face_up, offset, dragged,
                       mouse_at_drag_start, offset_at_drag_start,
                       mouse_captured, shufflePc, animating>>

\* DeckOfCardsApp.on_card_grabbed(event) with event.draggable = c.
on_card_grabbed(c) ==
    LET current_layers == layers
        new_layer == Len(current_layers) + 1
    IN  /\ fresh_deck' = FALSE
        /\ layers' = Append(current_layers, new_layer)
        /\ layer' = [layer EXCEPT ![c] = new_layer]
        /\ UNCHANGED <<cards, cardDeckVars, appState, face_up, offset, dragged,
                       mouse_at_drag_start, offset_at_drag_start,
                       mouse_captured, shufflePc, animating>>

\* DeckOfCardsApp._return_cards_to_deck(): an animation of the offset to (0, 0)
\* is requested for every card of the deck.
return_cards_to_deck == Cards

\* The loop reading the last element of z_indexes without removing it.
RECURSIVE PopLayersPeek(_, _)
PopLayersPeek(i, z_indexes) ==
    IF i > NumCards THEN <<>>
    ELSE <<z_indexes[Len(z_indexes)]>> \o PopLayersPeek(i + 1, z_indexes)

\* The for loop of action_shuffle from card i on: every card takes
\* z_indexes.pop(), the last element of what is left of the list.
RECURSIVE PopLayers(_, _)
PopLayers(i, z_indexes) ==
    IF i > NumCards THEN <<>>
    ELSE <<z_indexes[Len(z_indexes)]>>
         \o PopLayers(i + 1, SubSeq(z_indexes, 1, Len(z_indexes) - 1))

\* The end of action_shuffle without its reset of screen.styles.layers.
reshuffle_keeps_layers(z_indexes) ==
    /\ face_up' = [c \in Cards |-> FALSE]
    /\ layer' = [c \in Cards |-> PopLayers(1, z_indexes)[c]]
    /\ fresh_deck' = TRUE
    /\ shufflePc' = "idle"
    /\ gesture' = [gesture EXCEPT !.intact = FALSE]
    /\ assigned' = {layer'[c] : c \in Cards}
    /\ untouched' = FALSE
    /\ UNCHANGED <<cards, cardDeckVars,
                   appState, offset, dragged, mouse_at_drag_start,
                   offset_at_drag_start, mouse_captured, grabbedQueue,
                   clickPending, layers>>

\* action_shuffle after its wait: z_indexes is range(1, 53) as random.shuffle
\* left it.
reshuffle(z_indexes) ==
    /\ face_up' = [c \in Cards |-> FALSE]
    /\ layer' = [c \in Cards |-> PopLayers(1, z_indexes)[c]]
    /\ layers' = Range(1, NumCards + 1)
    /\ fresh_deck' = TRUE
    /\ shufflePc' = "idle"
    /\ gesture' = [gesture EXCEPT !.intact = FALSE]
    /\ assigned' = {layer'[c] : c \in Cards}
    /\ untouched' = FALSE
    /\ UNCHANGED <<cards, cardDeckVars,
                   appState, offset, dragged, mouse_at_drag_start,
                   offset_at_drag_start, mouse_captured, grabbedQueue,
                   clickPending>>

\* action_shuffle() from its call to the await (or, on a fresh deck, to its
\* end: nothing is awaited then).
action_shuffle(z_indexes) ==
    /\ appState = "mounted"
    /\ shufflePc = "idle"
    /\ IF ~fresh_deck
       THEN /\ animating' = animating \cup return_cards_to_deck
            /\ shufflePc' = "waiting"
            /\ untouched' = FALSE
            /\ UNCHANGED <<cards, cardDeckVars,
                           appState, cardVars, layers, fresh_deck,
                           mouse_captured, grabbedQueue, clickPending,
                           gesture, assigned>>
       ELSE /\ reshuffle(z_indexes)
            /\ UNCHANGED animating

\* A wait that returns at once.
wait_returns_at_once == TRUE

\* animator.wait_until_complete(): resumes once no animation is running.
wait_until_complete == animating = {}

\* action_shuffle() from the await to its end.
action_shuffle_resume(z_indexes) ==
    /\ shufflePc = "waiting"
    /\ wait_until_complete
    /\ reshuffle(z_indexes)
    /\ UNCHANGED animating

\* An animation that does not end while its card is held by the pointer.
animation_complete_unless_held(c) ==
    /\ c \in animating
    /\ \A d \in animating : c <= d
    /\ mouse_captured # c
    /\ animating' = animating \ {c}
    /\ offset' = [offset EXCEPT ![c] = Origin]
    /\ UNCHANGED <<cards, cardDeckVars,
                   appState, face_up, layer, dragged, mouse_at_drag_start,
                   offset_at_drag_start, layers, fresh_deck, mouse_captured,
                   grabbedQueue, clickPending, shufflePc, gesture, assigned,
                   untouched>>

\* The animation requested for card c reaches its end value.  The animations
\* are requested in deck order with one duration, so they end in deck order.
animation_complete(c) ==
    /\ c \in animating
    /\ \A d \in animating : c <= d
    /\ animating' = animating \ {c}
    /\ offset' = [offset EXCEPT ![c] = Origin]
    /\ UNCHANGED <<cards, cardDeckVars,
                   appState, face_up, layer, dragged, mouse_at_drag_start,
                   offset_at_drag_start, layers, fresh_deck, mouse_captured,
                   grabbedQueue, clickPending, shufflePc, gesture, assigned,
                   untouched>>

----------------------------------------------------------------------------
\* The input subsystem: one pointer; while a card holds the capture every
\* pointer event goes to it; the Click of a MouseUp follows it directly.
Deliverable(c) ==
    /\ appState = "mounted"
    /\ clickPending = 0
    /\ mouse_captured \in {0, c}

\* Offsets explored: a card is followed while it is at most MaxCoord cells
\* right of and above its place in the deck.
InRange(o) == o[1] \in 0..MaxCoord /\ o[2] \in (0 - MaxCoord)..0

MouseDown(c, p, cap) ==
    /\ Deliverable(c)
    /\ Len(layers) + Len(grabbedQueue) < NumCards + cap
    /\ on_mouse_down(c, p)
    /\ gesture' = [card |-> c, phase |-> "down", moved |-> FALSE,
                   faceAtDown |-> face_up[c], flips |-> 0, intact |-> TRUE,
                   downMouse |-> p, downOffset |-> offset[c]]
    /\ UNCHANGED <<clickPending, assigned, untouched>>

MouseMove(c, p) ==
    /\ Deliverable(c)
    /\ on_mouse_move(c, p)
    /\ InRange(offset'[c])
    /\ gesture' = IF gesture.card = c /\ gesture.phase = "down"
                  THEN [gesture EXCEPT !.moved = TRUE]
                  ELSE gesture
    /\ UNCHANGED <<clickPending, assigned, untouched>>

MouseUp(c) ==
    /\ Deliverable(c)
    /\ on_mouse_up(c)
    /\ clickPending' = c
    /\ gesture' = IF gesture.card = c /\ gesture.phase = "down"
                  THEN [gesture EXCEPT !.phase = "up"]
                  ELSE [NoGesture EXCEPT !.card = c, !.phase = "stray"]
    /\ UNCHANGED <<assigned, untouched>>

Click(c) ==
    /\ clickPending = c
    /\ on_click(c)
    /\ clickPending' = 0
    /\ gesture' = IF gesture.phase = "up"
                  THEN [gesture EXCEPT !.phase = "clicked",
                            !.flips = IF face_up'[c] # face_up[c] THEN 1 ELSE 0]
                  ELSE NoGesture
    /\ UNCHANGED <<assigned, untouched>>

\* The app handles the oldest Grabbed message posted.
CardGrabbed ==
    /\ grabbedQueue # <<>>
    /\ on_card_grabbed(Head(grabbedQueue))
    /\ grabbedQueue' = Tail(grabbedQueue)
    /\ assigned' = assigned \cup {layer'[Head(grabbedQueue)]}
    /\ untouched' = FALSE
    /\ UNCHANGED <<clickPending, gesture>>

\* One step of the program, the pointer acting on the cards T at the
\* positions P, random.shuffle leaving one of the orders Z, at most cap grabs
\* between two shuffles.
NextOver(T, P, Z, cap) ==
    \/ compose
    \/ on_mount
    \/ \E c \in T, p \in P : MouseDown(c, p, cap)
    \/ \E c \in T, p \in P : MouseMove(c, p)
    \/ \E c \in T : MouseUp(c)
    \/ \E c \in Cards : Click(c)
    \/ CardGrabbed
    \/ \E z \in Z : action_shuffle(z)
    \/ \E z \in Z : action_shuffle_resume(z)
    \/ \E c \in Cards : animation_complete(c)

Next == NextOver(Cards, Positions, Shuffles(NumCards), MaxGrabs)

Spec == Init /\ [][Next]_vars

\* The stacking order on its own: the pointer presses, moves and releases at
\* one position, so that cards are grabbed, dragged and clicked in every order
\* but stay where they are.
NextInPlace ==
    NextOver(Cards, {<<0, MaxCoord>>}, Shuffles(NumCards), MaxGrabs)

SpecInPlace == Init /\ [][NextInPlace]_vars

\* The drag on its own: the pointer acts on the first and on the last card of
\* the deck, and random.shuffle leaves the list in the order it was in.
NextDrag ==
    NextOver({1, NumCards}, Positions, {Range(1, NumCards + 1)}, MaxGrabsDrag)

SpecDrag == Init /\ [][NextDrag]_vars

\* The shuffle under fair scheduling: the pointer acts on the first card, at
\* any time and for as long as it likes; the animator's timer keeps running,
\* so a running animation ends, and the event loop resumes the coroutine once
\* its await can return.
NextFair ==
    NextOver({1}, Positions, {Range(1, NumCards + 1)}, MaxGrabsDrag)

SpecFair ==
    /\ Init
    /\ [][NextFair]_vars
    /\ WF_vars(\E c \in Cards : animation_complete(c))
    /\ WF_vars(\E z \in Shuffles(NumCards) : action_shuffle_resume(z))

----------------------------------------------------------------------------
\* CardDeckApp (src/card_deck.py): one Card on the screen, no deck, no shuffle.
\* Its Draggable has no dragged field and posts no message.  A handler is the
\* state of the app after it, given the state before it.

\* Draggable.on_mouse_down(event) with event.screen_offset = p.
card_deck_on_mouse_down(app, p) ==
    [app EXCEPT !.mouse_at_drag_start = p,
                !.offset_at_drag_start = app.offset,
                !.mouse_captured = TRUE]

\* Draggable.on_mouse_move(event) with event.screen_offset = p.
card_deck_on_mouse_move(app, p) ==
    IF app.mouse_at_drag_start # None /\ app.offset_at_drag_start # None
    THEN [app EXCEPT !.offset =
              OffsetSub(OffsetAdd(app.offset_at_drag_start, p),
                        app.mouse_at_drag_start)]
    ELSE app

\* Draggable.on_mouse_up(event).
card_deck_on_mouse_up(app) ==
    [app EXCEPT !.mouse_at_drag_start = None,
                !.offset_at_drag_start = None,
                !.mouse_captured = FALSE]

\* Card.on_click().
card_deck_on_click(app) == [app EXCEPT !.face_up = ~app.face_up]

\* The pointer is followed over the positions of a square of the screen, the
\* card while it is at most MaxCoord cells away from its place in both
\* directions.
ScreenPositions == Coords \X Coords
CardDeckInRange(o) ==
    /\ o[1] \in (0 - MaxCoord)..MaxCoord
    /\ o[2] \in (0 - MaxCoord)..MaxCoord

\* Pointer events reach the card once it is composed; the Click of a MouseUp
\* follows it directly.
CardDeckDeliverable == cardDeck.composed /\ ~cardDeck.clickPending

\* CardDeckApp.compose(): the Card is yielded.
CardDeckCompose ==
    /\ ~cardDeck.composed
    /\ cardDeck' = [cardDeck EXCEPT !.composed = TRUE]
    /\ UNCHANGED <<cardDeckGesture, deckOfCardsVars>>

CardDeckMouseDown(p) ==
    /\ CardDeckDeliverable
    /\ cardDeck' = card_deck_on_mouse_down(cardDeck, p)
    /\ cardDeckGesture' = [phase |-> "down", moved |-> FALSE,
                           faceAtDown |-> cardDeck.face_up, flips |-> 0]
    /\ UNCHANGED deckOfCardsVars

CardDeckMouseMove(p) ==
    /\ CardDeckDeliverable
    /\ cardDeck' = card_deck_on_mouse_move(cardDeck, p)
    /\ CardDeckInRange(cardDeck'.offset)
    /\ cardDeckGesture' = IF cardDeckGesture.phase = "down"
                          THEN [cardDeckGesture EXCEPT !.moved = TRUE]
                          ELSE cardDeckGesture
    /\ UNCHANGED deckOfCardsVars

CardDeckMouseUp ==
    /\ CardDeckDeliverable
    /\ cardDeck' = [card_deck_on_mouse_up(cardDeck)
                       EXCEPT !.clickPending = TRUE]
    /\ cardDeckGesture' = IF cardDeckGesture.phase = "down"
                          THEN [cardDeckGesture EXCEPT !.phase = "up"]
                          ELSE [CardDeckNoGesture EXCEPT !.phase = "stray"]
    /\ UNCHANGED deckOfCardsVars

CardDeckClick ==
    /\ cardDeck.clickPending
    /\ cardDeck' = [card_deck_on_click(cardDeck)
                       EXCEPT !.clickPending = FALSE]
    /\ cardDeckGesture' =
          IF cardDeckGesture.phase = "up"
          THEN [cardDeckGesture EXCEPT
                    !.phase = "clicked",
                    !.flips = IF cardDeck'.face_up # cardDeck.face_up
                              THEN 1 ELSE 0]
          ELSE CardDeckNoGesture
    /\ UNCHANGED deckOfCardsVars

NextCardDeck ==
    \/ CardDeckCompose
    \/ \E p \in ScreenPositions : CardDeckMouseDown(p)
    \/ \E p \in ScreenPositions : CardDeckMouseMove(p)
    \/ CardDeckMouseUp
    \/ CardDeckClick

SpecCardDeck == Init /\ [][NextCardDeck]_vars

----------------------------------------------------------------------------
\* C1: a MouseDown, MouseUp and Click on a card with no MouseMove between the
\* MouseDown and the MouseUp toggles the card's face_up exactly once: nothing
\* is toggled before the Click, the Click makes one toggle, and unless a
\* shuffle reset the faces meanwhile face_up ends as the negation of what it
\* was at the MouseDown.
ClickTogglesOnce ==
    /\ (gesture.phase \in {"down", "up"} /\ gesture.intact)
           => face_up[gesture.card] = gesture.faceAtDown
    /\ (gesture.phase = "clicked" /\ ~gesture.moved)
           => /\ gesture.flips = 1
              /\ gesture.intact
                    => face_up[gesture.card] = ~gesture.faceAtDown

\* A face-up card was pressed, released and clicked with no move, and lies
\* face down now; the card had been dragged by an earlier gesture.
ClickedFaceUpCard ==
    /\ gesture.phase = "clicked"
    /\ ~gesture.moved
    /\ gesture.intact
    /\ gesture.faceAtDown
    /\ ~face_up[gesture.card]

\* C2: a MouseDown, one or more MouseMove, MouseUp and Click on a card make no
\* toggle, and unless a shuffle reset the faces meanwhile face_up ends as it
\* was at the MouseDown.
DragNeverToggles ==
    (gesture.phase = "clicked" /\ gesture.moved)
        => /\ gesture.flips = 0
           /\ gesture.intact => face_up[gesture.card] = gesture.faceAtDown

\* A face-up card was dragged away from the deck and released, and is still
\* face up after the Click.
DraggedFaceUpCard ==
    /\ gesture.phase = "clicked"
    /\ gesture.moved
    /\ gesture.intact
    /\ gesture.faceAtDown
    /\ face_up[gesture.card]
    /\ offset[gesture.card] # Origin

\* C3: in a drag session every MouseMove(p) leaves the card at the offset
\* recorded at the session's MouseDown plus p minus the pointer position
\* recorded at that MouseDown, whatever moves came before; the two fields
\* hold the values of the MouseDown for the whole session.
DragOffsetIsAbsolute ==
    [][\A c \in Cards, p \in Positions :
          (MouseMove(c, p) /\ mouse_at_drag_start[c] # None)
              => /\ gesture.card = c /\ gesture.phase = "down"
                 /\ mouse_at_drag_start[c] = gesture.downMouse
                 /\ offset_at_drag_start[c] = gesture.downOffset
                 /\ offset'[c] = OffsetSub(OffsetAdd(gesture.downOffset, p),
                                           gesture.downMouse)]_vars

\* A card picked up away from the deck has been moved, after an earlier move
\* of the same session, to another place than the one it was picked up at.
MovedFromDisplacedStart ==
    /\ gesture.phase = "down"
    /\ gesture.moved
    /\ gesture.downOffset # Origin
    /\ offset[gesture.card] # gesture.downOffset

\* No drag session is open on card c.
Idle(c) == mouse_at_drag_start[c] = None /\ offset_at_drag_start[c] = None

\* C10: a MouseMove or a MouseUp handled by a card with no open drag session
\* is accepted and changes neither the card's offset, dragged, face_up and
\* layer nor fresh_deck and the published layers, and opens no session.
IdleEventsAreNoOps ==
    [][\A c \in Cards :
          (Idle(c) /\ Deliverable(c))
              => /\ ENABLED MouseUp(c)
                 /\ \A p \in Positions :
                       /\ ENABLED MouseMove(c, p)
                       /\ (MouseMove(c, p) \/ MouseUp(c))
                             => /\ offset'[c] = offset[c]
                                /\ dragged'[c] = dragged[c]
                                /\ face_up'[c] = face_up[c]
                                /\ layer'[c] = layer[c]
                                /\ fresh_deck' = fresh_deck
                                /\ layers' = layers
                                /\ Idle(c)']_vars

\* A card that was dragged before and has no session open was sent a MouseUp.
StrayMouseUp ==
    /\ gesture.phase = "stray"
    /\ clickPending = gesture.card
    /\ Idle(gesture.card)
    /\ dragged[gesture.card]
    /\ offset[gesture.card] # Origin

\* C4: once the deck is composed no two cards have the same layer.
UniqueLayers ==
    appState # "constructed"
        => \A c, d \in Cards : c # d => layer[c] # layer[d]

\* A shuffle is waiting for its animations after an earlier shuffle and two
\* grabs, the last one handled during the wait.
GrabbedTwiceWhileShuffling ==
    /\ shufflePc = "waiting"
    /\ Len(layers) = NumCards + 2
    /\ \E c, d \in Cards :
          /\ c # d
          /\ layer[c] = NumCards + 1
          /\ layer[d] = NumCards + 2
          /\ d \notin animating

\* A step in which a shuffle runs to its end.
ShuffleCompletes ==
    \E z \in Shuffles(NumCards) :
        action_shuffle_resume(z) \/ (fresh_deck /\ action_shuffle(z))

\* C5: when a shuffle completes the cards' layers are the values 1..N, each
\* used once, and every card is face down.
ShuffleLeavesPermutation ==
    [][ShuffleCompletes
          => /\ {layer'[c] : c \in Cards} = 1..NumCards
             /\ \A c, d \in Cards : c # d => layer'[c] # layer'[d]
             /\ \A c \in Cards : ~face_up'[c]]_vars

\* A shuffle that had to wait has completed while a card is held: the card was
\* pressed face up, its grab was handled before the shuffle ended, and the
\* shuffle left it face down, in another order of the deck than compose did.
ShuffledWhileHeld ==
    /\ fresh_deck
    /\ shufflePc = "idle"
    /\ grabbedQueue = <<>>
    /\ layer[1] # 1
    /\ gesture.phase = "down"
    /\ gesture.faceAtDown
    /\ ~gesture.intact
    /\ ~face_up[gesture.card]

\* C6: handling the grab of a card makes fresh_deck false and gives the card
\* a layer above every layer given to a card since the last completed shuffle
\* (since startup if there was none).
GrabRisesAboveAssigned ==
    [][CardGrabbed
          => /\ ~fresh_deck'
             /\ \A id \in assigned : layer'[Head(grabbedQueue)] > id]_vars

\* Two grabs were handled since the last shuffle, the second on another card.
SecondGrabOnTop ==
    /\ ~fresh_deck
    /\ assigned = 1..(NumCards + 2)
    /\ \E c, d \in Cards :
          c # d /\ layer[c] = NumCards + 1 /\ layer[d] = NumCards + 2

\* C7: a shuffle started on a deck that is not fresh requests the return
\* animation of every card that is away from the origin and changes no layer
\* and no face then; it goes on to reassign the layers and reset the faces
\* only once every animation it requested has completed: while one is still
\* running, a layer changes only by the grab of that card being handled and a
\* face only by the Click of that card.
ShuffleWaitsForAnimations ==
    [][/\ (~fresh_deck /\ \E z \in Shuffles(NumCards) : action_shuffle(z))
           => /\ \A c \in Cards : offset[c] # Origin => c \in animating'
              /\ layer' = layer
              /\ face_up' = face_up
              /\ shufflePc' = "waiting"
       /\ (shufflePc = "waiting" /\ shufflePc' # "waiting")
           => animating = {}
       /\ (shufflePc = "waiting" /\ animating # {})
           => \A c \in Cards :
                 /\ layer'[c] # layer[c]
                       => CardGrabbed /\ Head(grabbedQueue) = c
                 /\ face_up'[c] # face_up[c] => Click(c)]_vars

\* A shuffle waits with the animation of a displaced card still running,
\* another card's animation being over.
ShuffleWaiting ==
    /\ shufflePc = "waiting"
    /\ \E c, d \in Cards :
          /\ c \in animating /\ offset[c] # Origin
          /\ d \notin animating

\* C8: when a shuffle completes every card is at the origin.
ShuffleReturnsEveryCard ==
    [][ShuffleCompletes => \A c \in Cards : offset'[c] = Origin]_vars

\* C9: after startup, until a grab is handled or a shuffle runs, the i-th
\* card of the deck is on layer i and the published layers are 1..N.
InitialLayersAscend ==
    (appState = "mounted" /\ untouched)
        => /\ \A i \in Cards : layer[i] = i
           /\ {layer[i] : i \in Cards} = 1..NumCards
           /\ layers = [i \in 1..NumCards |-> i]

\* The app is mounted, a card has been pressed and dragged, and its grab is
\* not handled yet.
MountedUntouched ==
    /\ appState = "mounted"
    /\ untouched
    /\ grabbedQueue # <<>>
    /\ \E c \in Cards : dragged[c]

\* C11: whenever fresh_deck is true every card is at the origin.
FreshDeckAtOrigin ==
    fresh_deck => \A c \in Cards : offset[c] = Origin

\* Card c is held by the pointer and the grab of its MouseDown has been
\* handled: no other card has been grabbed since.
HeldAfterGrab(c) ==
    /\ mouse_captured = c
    /\ mouse_at_drag_start[c] # None
    /\ \A i \in 1..Len(grabbedQueue) : grabbedQueue[i] # c

\* C12: a held card whose grab has been handled is on a layer above every
\* other card's, for as long as it is held.
HeldCardOnTop ==
    \A c \in Cards :
        HeldAfterGrab(c) => \A d \in Cards \ {c} : layer[c] > layer[d]

\* C13: a MouseDown handled by a card with an open drag session changes
\* neither the card's mouse_at_drag_start and offset_at_drag_start nor its
\* dragged, and posts no Grabbed message.
MouseDownOnlyWhenIdle ==
    [][\A c \in Cards :
          (~Idle(c) /\ \E p \in Positions : MouseDown(c, p, MaxGrabs))
              => /\ mouse_at_drag_start'[c] = mouse_at_drag_start[c]
                 /\ offset_at_drag_start'[c] = offset_at_drag_start[c]
                 /\ dragged'[c] = dragged[c]
                 /\ grabbedQueue' = grabbedQueue]_vars

\* C14: handling the grab of a card c changes c's layer, the published layers
\* and fresh_deck only: every other card keeps its layer, and no card's
\* offset, face_up, dragged or drag-session field changes, nor the mouse
\* capture, the running animations or the shuffle's progress.
GrabChangesOnlyItsCard ==
    [][CardGrabbed
          => /\ \A d \in Cards \ {Head(grabbedQueue)} : layer'[d] = layer[d]
             /\ offset' = offset
             /\ face_up' = face_up
             /\ dragged' = dragged
             /\ mouse_at_drag_start' = mouse_at_drag_start
             /\ offset_at_drag_start' = offset_at_drag_start
             /\ mouse_captured' = mouse_captured
             /\ animating' = animating
             /\ shufflePc' = shufflePc]_vars

\* The grab of a card has been handled while another card, grabbed before it,
\* lies away from the deck: that card is still on the layer its own grab gave
\* it.
GrabbedOverDisplacedCard ==
    /\ grabbedQueue = <<>>
    /\ \E c, d \in Cards :
          /\ c # d
          /\ mouse_captured = c
          /\ layer[c] = NumCards + 2
          /\ layer[d] = NumCards + 1
          /\ offset[d] # Origin

\* The number of layers the screen publishes.
PublishedCount == Cardinality({layers[i] : i \in 1..Len(layers)})

\* C15: on_mount publishes N layers; handling a grab adds exactly one; a
\* shuffle that completes leaves exactly N; no other step changes the number.
\* So g grabs after startup or after a completed shuffle leave N + g layers.
LayerCountGrowsByGrabs ==
    [][IF CardGrabbed THEN PublishedCount' = PublishedCount + 1
       ELSE IF on_mount THEN PublishedCount' = NumCards
       ELSE IF fresh_deck' /\ shufflePc' = "idle" /\ ShuffleCompletes
            THEN PublishedCount' = NumCards
       ELSE PublishedCount' = PublishedCount]_vars

\* A card is held; its grab was handled, adding a layer, and a shuffle that
\* completed since has left N layers again.
CollapsedAfterGrab ==
    /\ fresh_deck
    /\ shufflePc = "idle"
    /\ grabbedQueue = <<>>
    /\ gesture.phase = "down"
    /\ ~gesture.intact
    /\ mouse_captured = gesture.card
    /\ PublishedCount = NumCards

\* C16: in every state a card's mouse_at_drag_start is set exactly when its
\* offset_at_drag_start is; the two are set exactly from the card's MouseDown
\* to its MouseUp (the card then holds the mouse capture), and are None
\* before the app is mounted and when a MouseUp has just been handled.
SessionFieldsPaired ==
    \A c \in Cards :
        /\ (mouse_at_drag_start[c] = None) <=> (offset_at_drag_start[c] = None)
        /\ (gesture.card = c /\ gesture.phase = "down")
               <=> mouse_at_drag_start[c] # None
        /\ mouse_captured = c <=> mouse_at_drag_start[c] # None
        /\ appState # "mounted" => Idle(c)
        /\ clickPending = c => Idle(c)

\* A card was pressed, moved and released: its MouseUp has just been handled
\* and the two fields are None again.
ReleasedAfterMove ==
    /\ gesture.phase = "up"
    /\ gesture.moved
    /\ clickPending = gesture.card
    /\ Idle(gesture.card)
    /\ offset[gesture.card] # gesture.downOffset

\* C17: a shuffle that has started and waits for its animations eventually
\* completes: the layers are reassigned and fresh_deck is true, the coroutine
\* is over.  (A shuffle of a fresh deck completes in the step it starts in.)
ShuffleEventuallyCompletes ==
    (shufflePc = "waiting") ~> (shufflePc = "idle" /\ fresh_deck)

\* A shuffle has completed while the first card was held: the card was moved
\* after its return animation had ended and lies away from the deck.
ShuffleCompletedDuringDrag ==
    /\ shufflePc = "idle"
    /\ fresh_deck
    /\ grabbedQueue = <<>>
    /\ gesture.phase = "down"
    /\ gesture.moved
    /\ ~gesture.intact
    /\ offset[gesture.card] # Origin

\* The deck list holds 52 cards, one for every pair of a suit and a rank and
\* none twice, the suits in the order of CardSuit and within a suit the ranks
\* from KING down to ACE.
DeckInOrder ==
    /\ Len(cards) = 52
    /\ Len(cards) = NumSuits * NumRanks
    /\ \A s \in 1..NumSuits, r \in 1..NumRanks :
          \E i \in 1..Len(cards) : cards[i] = <<s, r>>
    /\ \A i, j \in 1..Len(cards) : i # j => cards[i] # cards[j]
    /\ \A s \in 1..NumSuits, k \in 1..NumRanks :
          cards[(s - 1) * NumRanks + k] = <<s, NumRanks + 1 - k>>

\* C18: the deck list the app is constructed with is in that order, and no
\* step of the program (startup, grab, drag, release, click, shuffle,
\* animation) changes the list.
DeckBuiltOnce ==
    [][/\ appState = "constructed" => DeckInOrder
       /\ cards' = cards]_vars

\* A card was grabbed, dragged, released and clicked, a shuffle completed
\* during the drag, and the deck list still runs from the King of Diamonds to
\* the Ace of Spades.
DeckInOrderAfterPlay ==
    /\ gesture.phase = "clicked"
    /\ gesture.moved
    /\ ~gesture.intact
    /\ grabbedQueue = <<>>
    /\ Len(cards) = 52
    /\ cards[1] = <<1, 13>>
    /\ cards[13] = <<1, 1>>
    /\ cards[14] = <<2, 13>>
    /\ cards[52] = <<4, 1>>

\* C19: once the app is mounted every card's layer is one of the published
\* layers, a value from 1 to their number.
LayersArePublished ==
    appState = "mounted"
        => \A c \in Cards :
              /\ \E i \in 1..Len(layers) : layers[i] = layer[c]
              /\ layer[c] \in 1..PublishedCount

\* After a shuffle that left the first card on another layer than compose
\* did, two grabs have been handled: a card is on the last layer published.
TopLayerPublishedAfterShuffle ==
    /\ shufflePc = "idle"
    /\ grabbedQueue = <<>>
    /\ ~fresh_deck
    /\ layer[1] \in 2..NumCards
    /\ PublishedCount = NumCards + 2
    /\ \E c \in Cards : layer[c] = NumCards + 2

\* C20: in CardDeckApp a MouseDown, one or more MouseMove, MouseUp and Click
\* on the card make no toggle: face_up ends as it was at the MouseDown.
CardDeckDragNeverToggles ==
    (cardDeckGesture.phase = "clicked" /\ cardDeckGesture.moved)
        => /\ cardDeckGesture.flips = 0
           /\ cardDeck.face_up = cardDeckGesture.faceAtDown

====
